---- MODULE Spec2Model ----
(***************************************************************************)
(* A model of stdlib/public/runtime/GenericMetadataBuilder.cpp: the        *)
(* in-process ReaderWriter (Buffer, WritableData, symbol lookup, logging)  *)
(* and the validation harness validateExternalGenericMetadataBuilder.      *)
(*                                                                         *)
(* Four specifications share the variables:                                *)
(*   SpecHarness  the harness, with the backend calls the engine makes     *)
(*   SpecPtr      writePointer / resolvePointer on a byte-addressed memory *)
(*   SpecSym      getSymbolPointer / getSymbolInfo                         *)
(*   SpecVWT      equalVWTs on pairs of value witness tables               *)
(***************************************************************************)
EXTENDS Integers, Sequences, FiniteSets, TLC

VARIABLES
  \* ---- validation harness
  pc,            \* position inside validateExternalGenericMetadataBuilder
  verbosity,     \* SWIFT_DEBUG_VALIDATE_EXTERNAL_GENERIC_METADATA_BUILDER()
  description,   \* the TypeContextDescriptor argument
  original,      \* the metadata built by the production path
  extraDataSize, \* result of genericValueDataExtraSize
  newMetadata,   \* the metadata built by the engine
  equal,         \* the local `equal` of the Compare step
  trace,         \* the calls the harness has made, in order
  stderr,        \* the text written to stderr, in order
  terminated,    \* the process was ended by fatalError
  backendCalls,  \* number of backend calls made by the engine in this run
  \* ---- WritableData / Buffer
  mem,           \* the address space, one byte per address
  data,          \* the WritableData: [ptr, size]
  written,       \* the byte addresses stored to by writes
  lastWrite,     \* the last writePointer / writeFunctionPointer call
  flagged,       \* checkPtr's assertion fired
  nWrites,
  \* ---- symbol lookup
  USE_DLADDR,    \* the build has dladdr / dlsym
  symtab,        \* what dlsym answers: name -> address (0: not found)
  symResult,     \* last result of getSymbolPointer
  infoResult,    \* last result of getSymbolInfo
  \* ---- equalVWTs
  vwtA, vwtB, vwtResult

harnessVars == <<pc, verbosity, description, original, extraDataSize,
                 newMetadata, equal, trace, stderr, terminated, backendCalls>>
ptrVars == <<mem, data, written, lastWrite, flagged, nWrites>>
symVars == <<USE_DLADDR, symtab, symResult, infoResult>>
vwtVars == <<vwtA, vwtB, vwtResult>>
vars == <<harnessVars, ptrVars, symVars, vwtVars>>

\* The values of the result variables before the first call.
NoWrite == [field |-> [kind |-> "StoredPointer", Nullable |-> TRUE],
            to |-> 0, target |-> 0, passed |-> FALSE]
NoSymResult == [name |-> "", result |-> [isError |-> FALSE, error |-> "", value |-> 0]]
NoInfoResult ==
  [buffer |-> 0,
   dl |-> [result |-> 0, dli_fname |-> [isNull |-> TRUE, chars |-> <<>>],
           dli_sname |-> [isNull |-> TRUE, chars |-> <<>>], dli_fbase |-> 0],
   info |-> [symbolName |-> <<>>, libraryName |-> <<>>, pointerOffset |-> 0]]
NoVWTResult == [done |-> FALSE, value |-> FALSE]

(***************************************************************************)
(* Bounds of the model.                                                    *)
(***************************************************************************)
MaxVerbosity == 2       \* verbosity ranges over 0..MaxVerbosity
MaxExtra == 1           \* extra data sizes 0..MaxExtra
MaxWitness == 1         \* a witness entry ranges over 0..MaxWitness
MaxFlags == 3           \* ValueWitnessFlags::Data ranges over 0..MaxFlags
MaxBackendCalls == 1    \* backend calls the engine makes per run
MaxSize == 3            \* a WritableData has 0..MaxSize bytes
MaxWrites == 1          \* writes made on the WritableData per run

\* sizeof(ValueMetadata), in cells of the model's metadata records (the kind
\* and the description).
SizeofValueMetadata == 2

(***************************************************************************)
(* Value witness tables and equalVWTs.                                     *)
(***************************************************************************)
WitnessVals == 0..MaxWitness

\* The required entries ValueWitness.def lists under
\* WANT_ONLY_REQUIRED_VALUE_WITNESSES (function and data witnesses; flags is
\* kept apart because it is compared through getOpaqueValue), and the entries
\* it lists under WANT_ONLY_ENUM_VALUE_WITNESSES.
RequiredWitnesses == {"destroy", "size"}
EnumWitnesses == {"getEnumTag"}

\* The bit of ValueWitnessFlags::Data that says the table has enum witnesses.
HasEnumWitnesses == 2

ValueWitnessFlags == [Data : 0..MaxFlags]

ValueWitnessTables ==
  [req : [RequiredWitnesses -> WitnessVals],
   flags : ValueWitnessFlags,
   enum : [EnumWitnesses -> WitnessVals]]

\* unwrapVWTField(const ValueWitnessFlags &): field.getOpaqueValue()
unwrapVWTFlags(field) == field.Data

\* unwrapVWTField(const T &): the field itself
unwrapVWTField(field) == field

\* dyn_cast<EnumValueWitnessTable>(t) succeeds when classof(t) holds:
\* t->flags.hasEnumWitnesses()
isEnumVWT(t) == (t.flags.Data \div HasEnumWitnesses) % 2 = 1

\* equalVWTs without its enum half.
equalVWTsRequiredOnly(a, b) ==
  /\ \A w \in RequiredWitnesses : unwrapVWTField(a.req[w]) = unwrapVWTField(b.req[w])
  /\ unwrapVWTFlags(a.flags) = unwrapVWTFlags(b.flags)

equalVWTs(a, b) ==
  IF \E w \in RequiredWitnesses : unwrapVWTField(a.req[w]) # unwrapVWTField(b.req[w])
    THEN FALSE
  ELSE IF unwrapVWTFlags(a.flags) # unwrapVWTFlags(b.flags)
    THEN FALSE
  ELSE IF ~isEnumVWT(a) /\ ~isEnumVWT(b)
    THEN TRUE
  ELSE IF isEnumVWT(a) /\ isEnumVWT(b)
    THEN ~\E w \in EnumWitnesses : unwrapVWTField(a.enum[w]) # unwrapVWTField(b.enum[w])
  ELSE FALSE

(***************************************************************************)
(* Logging.                                                                *)
(***************************************************************************)
Line(src, msg, arg) == [src |-> src, msg |-> msg, arg |-> arg]

\* InProcessReaderWriter::log: nothing below verbosity 2.
log(out, msg, arg) ==
  IF verbosity < 2 THEN out ELSE Append(out, Line("log", msg, arg))

\* validationLog: a validation failure is always written, anything else only
\* from verbosity 2 on.
validationLog(out, isValidationFailure, msg, arg) ==
  IF ~isValidationFailure /\ verbosity < 2
    THEN out
    ELSE Append(out, Line("validationLog", msg, arg))

\* printToStderr, the Dumper's sink: written whatever the verbosity.
printToStderr(out, msg, arg) == Append(out, Line("printToStderr", msg, arg))

(***************************************************************************)
(* Symbol lookup.                                                          *)
(***************************************************************************)
Names == {"sym_a", "sym_b", "sym_c"}

Ok(v) == [isError |-> FALSE, error |-> "", value |-> v]
BuilderError(msg) == [isError |-> TRUE, error |-> msg, value |-> 0]

\* dlsym(RTLD_SELF or RTLD_DEFAULT, name)
dlsym(name) == symtab[name]

\* getSymbolPointer without the check of dlsym's answer.
getSymbolPointerUnchecked(out, name) ==
  [out |-> out, result |-> Ok(dlsym(name))]

\* getSymbolPointer: [result, out], out being stderr after the call's LOG. A
\* Buffer is modelled by its ptr.
getSymbolPointer(out, name) ==
  IF USE_DLADDR
    THEN LET ptr == dlsym(name)
         IN [out |-> log(out, "getSymbolPointer", name),
             result |-> IF ptr = 0
                          THEN BuilderError("dlsym could not find symbol")
                          ELSE Ok(ptr)]
    ELSE [out |-> out,
          result |-> BuilderError("getSymbolPointer is not implemented on this platform")]

(***************************************************************************)
(* The validation harness.                                                 *)
(***************************************************************************)
\* The contents the engine can leave in the n cells of a metadata record.
MetadataByteVals == {0, 1}
MetadataBytes(n) == [1..n -> MetadataByteVals]

\* memcmp(a, b, n): 0 when the first n bytes agree, else the sign of the
\* first difference.
memcmp(a, b, n) ==
  IF \A i \in 1..n : a[i] = b[i]
    THEN 0
    ELSE LET i == CHOOSE k \in 1..n : a[k] # b[k] /\ \A j \in 1..(k - 1) : a[j] = b[j]
         IN IF a[i] < b[i] THEN -1 ELSE 1

StructVWT == [req |-> [w \in RequiredWitnesses |-> 0],
              flags |-> [Data |-> 0],
              enum |-> [w \in EnumWitnesses |-> 0]]
EnumVWT == [req |-> [w \in RequiredWitnesses |-> 0],
            flags |-> [Data |-> HasEnumWitnesses],
            enum |-> [w \in EnumWitnesses |-> 0]]

\* The metadata handed in as `original`: a struct and an enum.
Originals ==
  {[name |-> "Struct", vwt |-> StructVWT,
    bytes |-> [i \in 1..(SizeofValueMetadata + MaxExtra) |-> 0]],
   [name |-> "Enum", vwt |-> EnumVWT,
    bytes |-> [i \in 1..(SizeofValueMetadata + MaxExtra) |-> IF i = 1 THEN 1 ELSE 0]]}

\* The tables the engine installs in the harness runs: the production table,
\* or one that differs from it in a single entry (all pairs of tables are
\* covered by SpecVWT).
EngineVWTs(t) ==
  {u \in ValueWitnessTables :
     Cardinality({w \in RequiredWitnesses : u.req[w] # t.req[w]})
       + Cardinality({w \in EnumWitnesses : u.enum[w] # t.enum[w]})
       + (IF u.flags # t.flags THEN 1 ELSE 0) <= 1}

\* The symbols the engine looks up in the harness runs.
EngineSymbols == {"sym_a", "sym_b"}

NoMetadata == [name |-> "", vwt |-> StructVWT, bytes |-> <<>>]

\* dyn_cast<ValueTypeDescriptor>(description) and isGeneric()
Descriptions == [isValue : BOOLEAN, isGeneric : BOOLEAN]

InitHarnessVars ==
  /\ pc = "entry"
  /\ verbosity \in 0..MaxVerbosity
  /\ description \in Descriptions
  /\ original \in Originals
  /\ extraDataSize = Ok(0)
  /\ newMetadata = NoMetadata
  /\ equal = TRUE
  /\ trace = <<>>
  /\ stderr = <<>>
  /\ terminated = FALSE
  /\ backendCalls = 0

\* Lines 398-399: only a generic value type is validated.
ShouldValidateAnyValue(d) == d.isValue
ShouldValidate(d) == d.isValue /\ d.isGeneric

Entry ==
  /\ pc = "entry"
  /\ pc' = IF ShouldValidate(description) THEN "extraSize" ELSE "returned"
  /\ UNCHANGED <<verbosity, description, original, extraDataSize, newMetadata,
                 equal, trace, stderr, terminated, backendCalls>>

\* Lines 403-408: genericValueDataExtraSize and its error check.
SizeCompute ==
  /\ pc = "extraSize"
  /\ \E r \in {BuilderError("extraDataSize failed")} \cup {Ok(n) : n \in 0..MaxExtra} :
       /\ extraDataSize' = r
       /\ IF r.isError
            THEN /\ stderr' = validationLog(stderr, FALSE, "error getting extra data size", r.error)
                 /\ trace' = trace \o <<"genericValueDataExtraSize", "error getting extra data size">>
                 /\ pc' = "returned"
            ELSE /\ stderr' = stderr
                 /\ trace' = Append(trace, "genericValueDataExtraSize")
                 /\ pc' = "allocate"
  /\ UNCHANGED <<verbosity, description, original, newMetadata, equal,
                 terminated, backendCalls>>

\* Line 414: the return that ends the attempt on an allocation error.
AfterAllocateErrorFallThrough == "initialize"
AfterAllocateError == "returned"

\* Lines 410-416: allocateGenericValueMetadata and its error check. The
\* engine lays out sizeof(ValueMetadata) + extraDataSize cells.
Allocate ==
  /\ pc = "allocate"
  /\ \/ /\ newMetadata' = newMetadata
        /\ stderr' = validationLog(stderr, FALSE, "error allocating metadata", "buildGenericValueMetadata failed")
        /\ trace' = trace \o <<"allocateGenericValueMetadata", "error allocating metadata">>
        /\ pc' = AfterAllocateError
     \/ /\ \E b \in MetadataBytes(SizeofValueMetadata + extraDataSize.value) :
             newMetadata' = [name |-> original.name, vwt |-> StructVWT, bytes |-> b]
        /\ stderr' = stderr
        /\ trace' = Append(trace, "allocateGenericValueMetadata")
        /\ pc' = "initialize"
  /\ UNCHANGED <<verbosity, description, original, extraDataSize, equal,
                 terminated, backendCalls>>

\* Lines 417-419 with initializeGenericValueMetadata, lines 305-317: the
\* failure is written with fprintf, whatever the verbosity.
Initialize ==
  /\ pc = "initialize"
  /\ \/ /\ newMetadata' = newMetadata
        /\ stderr' = Append(stderr, Line("fprintf", "swift_initializeGenericValueMetadata failed", "initializeGenericMetadata failed"))
        /\ trace' = Append(trace, "initializeGenericValueMetadata")
        /\ pc' = "returned"
     \/ /\ \E t \in EngineVWTs(original.vwt) : newMetadata' = [newMetadata EXCEPT !.vwt = t]
        /\ stderr' = stderr
        /\ trace' = Append(trace, "initializeGenericValueMetadata")
        /\ pc' = "compare"
  /\ UNCHANGED <<verbosity, description, original, extraDataSize, equal,
                 terminated, backendCalls>>

\* Lines 421-438: the two checks, and the head of the mismatch report.
Compare ==
  /\ pc = "compare"
  /\ LET vwtsEqual == equalVWTs(original.vwt, newMetadata.vwt)
         totalSize == SizeofValueMetadata + extraDataSize.value
         bytesDiffer == memcmp(original.bytes, newMetadata.bytes, totalSize) # 0
         out1 == IF vwtsEqual THEN stderr
                 ELSE validationLog(stderr, TRUE, "VWTs do not match", "")
         out2 == IF bytesDiffer
                   THEN validationLog(out1, TRUE, "Metadatas do not match", "")
                   ELSE out1
         eq == vwtsEqual /\ ~bytesDiffer
     IN /\ equal' = eq
        /\ trace' = trace \o <<"equalVWTs", "memcmp">>
        /\ IF eq
             THEN /\ stderr' = out2
                  /\ pc' = "success"
             ELSE /\ stderr' = validationLog(
                                 validationLog(out2, TRUE, "Error! Mismatch between new/old metadata builders!", ""),
                                 TRUE, "Original metadata:", "")
                  /\ pc' = "dumpOriginal"
  /\ UNCHANGED <<verbosity, description, original, extraDataSize, newMetadata,
                 terminated, backendCalls>>

\* Lines 439-442: dumpMetadata(original); its error is logged and the
\* report goes on.
DumpOriginal ==
  /\ pc = "dumpOriginal"
  /\ \E failed \in BOOLEAN :
       LET dumped == printToStderr(stderr, "dumpMetadata", original.name)
           out == IF failed
                    THEN validationLog(dumped, TRUE, "error dumping original metadata", "dump failed")
                    ELSE dumped
       IN stderr' = validationLog(out, TRUE, "New metadata builder:", "")
  /\ trace' = Append(trace, "dumpMetadata(original)")
  /\ pc' = "dumpNew"
  /\ UNCHANGED <<verbosity, description, original, extraDataSize, newMetadata,
                 equal, terminated, backendCalls>>

\* Lines 443-444: dumpMetadata(newMetadata).
DumpNew ==
  /\ pc = "dumpNew"
  /\ \E failed \in BOOLEAN :
       LET dumped == printToStderr(stderr, "dumpMetadata", "newMetadata")
       IN stderr' = IF failed
                      THEN validationLog(dumped, TRUE, "error dumping new metadata", "dump failed")
                      ELSE dumped
  /\ trace' = Append(trace, "dumpMetadata(newMetadata)")
  /\ pc' = "fatalError"
  /\ UNCHANGED <<verbosity, description, original, extraDataSize, newMetadata,
                 equal, terminated, backendCalls>>

\* Line 445: swift::fatalError ends the process; control never reaches
\* line 448.
AfterFatalErrorReturns == [pc |-> "success", terminated |-> FALSE]
AfterFatalError == [pc |-> "terminated", terminated |-> TRUE]

FatalError ==
  /\ pc = "fatalError"
  /\ stderr' = Append(stderr, Line("fatalError", "Fatal error: mismatched metadata.", ""))
  /\ trace' = Append(trace, "fatalError")
  /\ terminated' = AfterFatalError.terminated
  /\ pc' = AfterFatalError.pc
  /\ UNCHANGED <<verbosity, description, original, extraDataSize, newMetadata,
                 equal, backendCalls>>

\* Lines 448-450: the success trace.
Success ==
  /\ pc = "success"
  /\ stderr' = validationLog(stderr, FALSE, "Validated generic metadata builder on", original.name)
  /\ trace' = trace \o <<"swift_getTypeName", "Validated generic metadata builder on">>
  /\ pc' = "returned"
  /\ UNCHANGED <<verbosity, description, original, extraDataSize, newMetadata,
                 equal, terminated, backendCalls>>

\* The engine, while it builds, looks symbols up through the backend.
EngineGetSymbolPointer ==
  /\ pc = "allocate"
  /\ backendCalls < MaxBackendCalls
  /\ \E name \in EngineSymbols : stderr' = getSymbolPointer(stderr, name).out
  /\ backendCalls' = backendCalls + 1
  /\ UNCHANGED <<pc, verbosity, description, original, extraDataSize,
                 newMetadata, equal, trace, terminated>>

\* The engine, while it initializes, resolves field types through
\* getTypeByMangledName, lines 234-258; swift_getTypeByMangledName calls the
\* two substitution callbacks, each of which logs.
EngineGetTypeByMangledName ==
  /\ pc = "initialize"
  /\ backendCalls < MaxBackendCalls
  /\ \E witnessTableToo \in BOOLEAN :
       LET out == log(stderr, "substitutions.getMetadata", "")
       IN stderr' = IF witnessTableToo
                      THEN log(out, "substitutions.getWitnessTable", "")
                      ELSE out
  /\ backendCalls' = backendCalls + 1
  /\ UNCHANGED <<pc, verbosity, description, original, extraDataSize,
                 newMetadata, equal, trace, terminated>>

\* The harness leaves the variables of the other parts alone.
HarnessFrame == UNCHANGED <<mem, data, written, lastWrite, flagged, nWrites,
                            USE_DLADDR, symtab, symResult, infoResult,
                            vwtA, vwtB, vwtResult>>

HarnessNext ==
  \/ Entry /\ HarnessFrame
  \/ SizeCompute /\ HarnessFrame
  \/ Allocate /\ HarnessFrame
  \/ Initialize /\ HarnessFrame
  \/ Compare /\ HarnessFrame
  \/ DumpOriginal /\ HarnessFrame
  \/ DumpNew /\ HarnessFrame
  \/ FatalError /\ HarnessFrame
  \/ Success /\ HarnessFrame
  \/ EngineGetSymbolPointer /\ HarnessFrame
  \/ EngineGetTypeByMangledName /\ HarnessFrame

(***************************************************************************)
(* Idle values of the variables a specification does not use.              *)
(***************************************************************************)
IdleHarnessVars ==
  /\ pc = "idle"
  /\ verbosity = 0
  /\ description = [isValue |-> FALSE, isGeneric |-> FALSE]
  /\ original = NoMetadata
  /\ extraDataSize = Ok(0)
  /\ newMetadata = NoMetadata
  /\ equal = TRUE
  /\ trace = <<>>
  /\ stderr = <<>>
  /\ terminated = FALSE
  /\ backendCalls = 0

IdlePtrVars ==
  /\ mem = <<>>
  /\ data = [ptr |-> 0, size |-> 0]
  /\ written = {}
  /\ lastWrite = NoWrite
  /\ flagged = FALSE
  /\ nWrites = 0

IdleSymVars ==
  /\ symtab = [n \in Names |-> 0]
  /\ symResult = NoSymResult
  /\ infoResult = NoInfoResult

IdleVWTVars ==
  /\ vwtA = StructVWT
  /\ vwtB = StructVWT
  /\ vwtResult = NoVWTResult

\* dlsym's answers in the harness runs: one name is absent.
HarnessSymtab == [n \in Names |-> IF n = "sym_a" THEN 0 ELSE 5]

InitHarness ==
  /\ InitHarnessVars
  /\ IdlePtrVars
  /\ USE_DLADDR = TRUE
  /\ symtab = HarnessSymtab
  /\ symResult = NoSymResult
  /\ infoResult = NoInfoResult
  /\ IdleVWTVars

SpecHarness == InitHarness /\ [][HarnessNext]_vars

(***************************************************************************)
(* Buffer and WritableData on a byte-addressed memory.                     *)
(*                                                                         *)
(* The machine of the model is a small one: a byte holds ByteVals values,  *)
(* a pointer (StoredPointer, uintptr_t, size_t) is PtrBytes bytes wide, so *)
(* addresses and sizes are numbers modulo AddrSpace; the Offset of a       *)
(* relative pointer is OffBytes bytes wide (int32_t beside a 64-bit        *)
(* pointer).                                                               *)
(***************************************************************************)
ByteVals == 4
PtrBytes == 2
OffBytes == 1

RECURSIVE Pow(_, _)
Pow(b, n) == IF n = 0 THEN 1 ELSE b * Pow(b, n - 1)

AddrSpace == Pow(ByteVals, PtrBytes)
OffVals == Pow(ByteVals, OffBytes)
Addresses == 0..(AddrSpace - 1)

\* The bytes of an n-byte integer v, least significant first, put at addr.
storeBytes(m, addr, n, v) ==
  [a \in DOMAIN m |->
     LET i == (a - addr) % AddrSpace
     IN IF i < n THEN (v \div Pow(ByteVals, i)) % ByteVals ELSE m[a]]

\* The n-byte integer read at addr.
RECURSIVE loadBytes(_, _, _)
loadBytes(m, addr, n) ==
  IF n = 0 THEN 0
  ELSE m[addr % AddrSpace] + ByteVals * loadBytes(m, addr + 1, n - 1)

\* The addresses an n-byte store at addr touches.
Footprint(addr, n) == {(addr + i) % AddrSpace : i \in 0..(n - 1)}

\* The value of a stored Offset as a signed integer (two's complement).
SignedOffset(v) == IF v >= OffVals \div 2 THEN v - OffVals ELSE v

\* detail::measureRelativeOffset<Offset>(referent, base): the distance,
\* truncated to the Offset's width.
measureRelativeOffset(referent, base) ==
  ((referent - base) % AddrSpace) % OffVals

\* detail::applyRelativeOffset(base, offset): base plus the sign-extended
\* offset.
applyRelativeOffset(base, offset) == (base + SignedOffset(offset)) % AddrSpace

\* RelativeDirectPointer::operator=(absolute): null is stored as 0.
RelativeDirectAssign(to, absolute) ==
  IF absolute = 0 THEN 0 ELSE measureRelativeOffset(absolute, to)

\* RelativeDirectPointer::get(): a nullable pointer holding 0 is null.
RelativeDirectGet(m, at, Nullable) ==
  LET RelativeOffset == loadBytes(m, at, OffBytes)
  IN IF Nullable /\ RelativeOffset = 0 THEN 0
     ELSE applyRelativeOffset(at, RelativeOffset)

\* RelativeIndirectablePointer::operator=(absolute): always a direct offset.
RelativeIndirectableAssign(to, absolute, Nullable) ==
  IF Nullable /\ absolute = 0 THEN 0 ELSE measureRelativeOffset(absolute, to)

\* RelativeIndirectablePointer::get(): the low bit of the stored value says
\* that the offset leads to a pointer to the target.
RelativeIndirectableGet(m, at, Nullable) ==
  LET offsetPlusIndirect == loadBytes(m, at, OffBytes)
      address == applyRelativeOffset(at, offsetPlusIndirect - (offsetPlusIndirect % 2))
  IN IF Nullable /\ offsetPlusIndirect = 0 THEN 0
     ELSE IF offsetPlusIndirect % 2 = 1 THEN loadBytes(m, address, PtrBytes)
     ELSE address

\* The pointer encodings a field can have, by the overload they select.
AbsoluteKinds == {"StoredPointer", "Pointer"}
RelativeKinds == {"RelativeDirectPointer", "RelativeIndirectablePointer"}
FunctionKinds == {"FunctionPointer", "CompactFunctionPointer"}
PointerKinds == AbsoluteKinds \cup RelativeKinds
Fields == [kind : AbsoluteKinds \cup {"FunctionPointer"}, Nullable : {TRUE}]
            \cup [kind : RelativeKinds \cup {"CompactFunctionPointer"}, Nullable : BOOLEAN]

\* The width of a field of each kind.
FieldBytes(kind) ==
  IF kind \in AbsoluteKinds \cup {"FunctionPointer"} THEN PtrBytes ELSE OffBytes

\* checkPtr: (uintptr_t)toCheck - (uintptr_t)this->ptr < size, in unsigned
\* arithmetic of the pointer's width.
checkPtrInclusive(toCheck) == (toCheck - data.ptr) % AddrSpace <= data.size
checkPtr(toCheck) == (toCheck - data.ptr) % AddrSpace < data.size

\* `*to = target.ptr` for an absolute field (lines 140, 146, 152, 157, 173).
assignAbsoluteLowByte(m, to, target) == storeBytes(m, to, PtrBytes, target % ByteVals)
assignAbsolute(m, to, target) == storeBytes(m, to, PtrBytes, target)

\* `*to = target.ptr` of writePointer(To *to, Buffer<From> target) and of
\* writeFunctionPointer, by the field's type.
assign(m, f, to, target) ==
  CASE f.kind \in AbsoluteKinds \cup {"FunctionPointer"} ->
         assignAbsolute(m, to, target)
    [] f.kind \in {"RelativeDirectPointer", "CompactFunctionPointer"} ->
         storeBytes(m, to, OffBytes, RelativeDirectAssign(to, target))
    [] f.kind = "RelativeIndirectablePointer" ->
         storeBytes(m, to, OffBytes, RelativeIndirectableAssign(to, target, f.Nullable))

\* resolvePointer(uintptr_t *) and resolvePointer(const U *): `*ptr`.
resolveAbsolute(m, at) == loadBytes(m, at, PtrBytes)

\* Buffer::resolvePointer, by the field's type; the result is the Buffer's
\* ptr.
resolvePointer(m, f, at) ==
  CASE f.kind \in AbsoluteKinds -> resolveAbsolute(m, at)
    [] f.kind = "RelativeDirectPointer" -> RelativeDirectGet(m, at, f.Nullable)
    [] f.kind = "RelativeIndirectablePointer" -> RelativeIndirectableGet(m, at, f.Nullable)

\* Buffer::resolveFunctionPointer, by the field's type.
resolveFunctionPointer(m, f, at) ==
  CASE f.kind = "FunctionPointer" -> resolveAbsolute(m, at)
    [] f.kind = "CompactFunctionPointer" -> RelativeDirectGet(m, at, f.Nullable)

resolve(m, f, at) ==
  IF f.kind \in FunctionKinds THEN resolveFunctionPointer(m, f, at)
  ELSE resolvePointer(m, f, at)

\* allocate(size): size bytes from the arena, aligned for a pointer. The
\* arena hands out these addresses, and has room behind every allocation.
ArenaBases == {4, 8}
Regions ==
  {r \in [ptr : ArenaBases, size : 0..MaxSize] :
     /\ r.ptr % PtrBytes = 0
     /\ r.ptr + r.size + PtrBytes <= AddrSpace}

InitPtrVars ==
  /\ mem = [a \in Addresses |-> 0]
  /\ data \in Regions
  /\ written = {}
  /\ lastWrite = NoWrite
  /\ flagged = FALSE
  /\ nWrites = 0

\* A write: checkPtr, then the store. With the assertion compiled in, a
\* failed check ends the process before the store, so no write follows it.
Write(fields, to) ==
  /\ nWrites' = nWrites + 1
  /\ IF checkPtr(to)
       THEN \E f \in fields, target \in Addresses :
              /\ mem' = assign(mem, f, to, target)
              /\ written' = written \cup Footprint(to, FieldBytes(f.kind))
              /\ lastWrite' = [field |-> f, to |-> to, target |-> target, passed |-> TRUE]
              /\ flagged' = FALSE
       ELSE /\ mem' = mem
            /\ written' = written
            /\ lastWrite' = [NoWrite EXCEPT !.to = to]
            /\ flagged' = TRUE
  /\ UNCHANGED data

\* WritableData::writePointer, all overloads (lines 137-164).
WritePointer ==
  /\ ~flagged
  /\ nWrites < MaxWrites
  /\ \E to \in Addresses : Write({f \in Fields : f.kind \in PointerKinds}, to)

\* WritableData::writeFunctionPointer (lines 166-174).
WriteFunctionPointer ==
  /\ ~flagged
  /\ nWrites < MaxWrites
  /\ \E to \in Addresses : Write({f \in Fields : f.kind \in FunctionKinds}, to)

PtrNext ==
  \/ WritePointer /\ UNCHANGED <<harnessVars, symVars, vwtVars>>
  \/ WriteFunctionPointer /\ UNCHANGED <<harnessVars, symVars, vwtVars>>

InitPtr ==
  /\ IdleHarnessVars
  /\ InitPtrVars
  /\ USE_DLADDR = TRUE
  /\ IdleSymVars
  /\ IdleVWTVars

SpecPtr == InitPtr /\ [][PtrNext]_vars

\* C strings are sequences of characters; a const char * is such a string
\* or NULL.
Str(chars) == [isNull |-> FALSE, chars |-> chars]
NULL == [isNull |-> TRUE, chars |-> <<>>]
Unknown == <<"<", "u", "n", "k", "n", "o", "w", "n", ">">>

\* strrchr(s, '/'): the index of the last '/' of s, 0 when there is none.
strrchrSlash(s) ==
  IF \E i \in DOMAIN s : s[i] = "/"
    THEN CHOOSE i \in DOMAIN s : s[i] = "/" /\ \A j \in (i + 1)..Len(s) : s[j] # "/"
    ELSE 0

\* Lines 195-198: a NULL name is replaced by "<unknown>".
orUnknownUnchecked(s) == s.chars
orUnknown(s) == IF s.isNull THEN Unknown ELSE s.chars

\* What dladdr can answer: result 0 (no image holds the address), or an
\* image with or without a file name and a symbol name.
DlInfos ==
  [result : {0, 1},
   dli_fname : {NULL, Str(<<"/", "l", "/", "a">>), Str(<<"a">>), Str(<<"l", "/">>)},
   dli_sname : {NULL, Str(<<"s">>)},
   dli_fbase : {0, 4}]

\* The addresses dlsym answers with (0: the symbol is not found), and the
\* addresses getSymbolInfo is asked about.
SymAddrs == {0, 5, 9}

\* getSymbolInfo(buffer), dl being what dladdr(buffer.ptr, &info) answers.
getSymbolInfo(buffer, dl) ==
  IF USE_DLADDR
    THEN IF dl.result = 0
           THEN [symbolName |-> Unknown, libraryName |-> Unknown, pointerOffset |-> 0]
           ELSE LET dli_fname == orUnknown(dl.dli_fname)
                    dli_sname == orUnknown(dl.dli_sname)
                    slash == strrchrSlash(dli_fname)
                    libName == SubSeq(dli_fname, slash + 1, Len(dli_fname))
                IN [symbolName |-> dli_sname, libraryName |-> libName,
                    pointerOffset |-> (buffer - dl.dli_fbase) % AddrSpace]
    ELSE [symbolName |-> Unknown, libraryName |-> Unknown, pointerOffset |-> 0]

InitSymVars ==
  /\ USE_DLADDR \in BOOLEAN
  /\ symtab \in [Names -> SymAddrs]
  /\ symResult = NoSymResult
  /\ infoResult = NoInfoResult

GetSymbolPointer ==
  /\ backendCalls < MaxBackendCalls
  /\ \E name \in Names :
       LET r == getSymbolPointer(stderr, name)
       IN /\ symResult' = [name |-> name, result |-> r.result]
          /\ stderr' = r.out
  /\ pc' = "getSymbolPointer"
  /\ backendCalls' = backendCalls + 1
  /\ UNCHANGED <<USE_DLADDR, symtab, infoResult, verbosity>>

GetSymbolInfo ==
  /\ backendCalls < MaxBackendCalls
  /\ \E buffer \in SymAddrs, dl \in DlInfos :
       infoResult' = [buffer |-> buffer, dl |-> dl, info |-> getSymbolInfo(buffer, dl)]
  /\ pc' = "getSymbolInfo"
  /\ backendCalls' = backendCalls + 1
  /\ UNCHANGED <<USE_DLADDR, symtab, symResult, verbosity, stderr>>

\* The lookups leave the harness's other variables and the other parts
\* alone.
SymFrame == UNCHANGED <<description, original, extraDataSize, newMetadata,
                        equal, trace, terminated, ptrVars, vwtVars>>

SymNext ==
  \/ GetSymbolPointer /\ SymFrame
  \/ GetSymbolInfo /\ SymFrame

InitSym ==
  /\ pc = "idle"
  /\ verbosity \in 0..MaxVerbosity
  /\ description = [isValue |-> FALSE, isGeneric |-> FALSE]
  /\ original = NoMetadata
  /\ extraDataSize = Ok(0)
  /\ newMetadata = NoMetadata
  /\ equal = TRUE
  /\ trace = <<>>
  /\ stderr = <<>>
  /\ terminated = FALSE
  /\ backendCalls = 0
  /\ IdlePtrVars
  /\ InitSymVars
  /\ IdleVWTVars

SpecSym == InitSym /\ [][SymNext]_vars

(***************************************************************************)
(* equalVWTs applied to every pair of tables.                              *)
(***************************************************************************)
InitVWTVars ==
  /\ vwtA \in ValueWitnessTables
  /\ vwtB \in ValueWitnessTables
  /\ vwtResult = NoVWTResult

EqualVWTs ==
  /\ ~vwtResult.done
  /\ vwtResult' = [done |-> TRUE, value |-> equalVWTs(vwtA, vwtB)]
  /\ UNCHANGED <<vwtA, vwtB>>

InitVWT ==
  /\ IdleHarnessVars
  /\ IdlePtrVars
  /\ USE_DLADDR = TRUE
  /\ IdleSymVars
  /\ InitVWTVars

VWTNext == EqualVWTs /\ UNCHANGED <<harnessVars, ptrVars, symVars>>

SpecVWT == InitVWT /\ [][VWTNext]_vars

(***************************************************************************)
(* Properties of the harness, checked under SpecHarness.                   *)
(***************************************************************************)
Has(seq, x) == \E i \in DOMAIN seq : seq[i] = x
HasLine(out, msg) == \E i \in DOMAIN out : out[i].msg = msg
IsSuffix(suf, seq) ==
  /\ Len(suf) <= Len(seq)
  /\ SubSeq(seq, Len(seq) - Len(suf) + 1, Len(seq)) = suf

SuccessMsg == "Validated generic metadata builder on"

\* The Compare step has run and one of its two checks failed.
MismatchDetected ==
  /\ Has(trace, "memcmp")
  /\ \/ ~equalVWTs(original.vwt, newMetadata.vwt)
     \/ memcmp(original.bytes, newMetadata.bytes,
               SizeofValueMetadata + extraDataSize.value) # 0

\* C1: once the Compare step has found a mismatch, the harness can only go
\* on to dump the original, then the new record, then end the process with
\* fatalError: it never returns, the success trace is neither requested nor
\* written, a failing dump does not stop the report, and the process is
\* ended only after both dumps, in that order.
C1_MismatchIsFatal ==
  MismatchDetected =>
    /\ pc \in {"dumpOriginal", "dumpNew", "fatalError", "terminated"}
    /\ ~Has(trace, SuccessMsg)
    /\ ~HasLine(stderr, SuccessMsg)
    /\ HasLine(stderr, "Error! Mismatch between new/old metadata builders!")
    /\ pc = "dumpNew" => IsSuffix(<<"dumpMetadata(original)">>, trace)
    /\ pc = "fatalError" =>
         IsSuffix(<<"dumpMetadata(original)", "dumpMetadata(newMetadata)">>, trace)
    /\ pc = "terminated" =>
         /\ terminated
         /\ IsSuffix(<<"dumpMetadata(original)", "dumpMetadata(newMetadata)",
                       "fatalError">>, trace)
         /\ stderr[Len(stderr)].src = "fatalError"
    /\ pc # "terminated" =>
         /\ ~terminated
         /\ ENABLED (DumpOriginal \/ DumpNew \/ FatalError)

\* C1 witness: a mismatch run that ended in fatalError although both dumps
\* reported an error.
C1_Witness ==
  /\ pc = "terminated"
  /\ MismatchDetected
  /\ HasLine(stderr, "error dumping original metadata")
  /\ HasLine(stderr, "error dumping new metadata")

\* C2: an error of the size computation, of the allocation or of the
\* initialization ends the attempt: the error is logged, the function has
\* returned, the failing step is the last one that ran, and the process was
\* not ended.
C2_ExpectedErrorsAbortQuietly ==
  /\ extraDataSize.isError =>
       /\ pc = "returned"
       /\ trace = <<"genericValueDataExtraSize", "error getting extra data size">>
       /\ ~terminated
  /\ Has(trace, "error allocating metadata") =>
       /\ pc = "returned"
       /\ trace = <<"genericValueDataExtraSize", "allocateGenericValueMetadata",
                    "error allocating metadata">>
       /\ ~terminated
  /\ HasLine(stderr, "swift_initializeGenericValueMetadata failed") =>
       /\ pc = "returned"
       /\ trace = <<"genericValueDataExtraSize", "allocateGenericValueMetadata",
                    "initializeGenericValueMetadata">>
       /\ stderr[Len(stderr)].src = "fprintf"
       /\ ~terminated
  /\ (pc = "returned" /\ IsSuffix(<<"initializeGenericValueMetadata">>, trace)) =>
       HasLine(stderr, "swift_initializeGenericValueMetadata failed")

\* C2 witness: an allocation error has ended a run in which the engine had
\* already called the backend and the extra data size was 1.
C2_Witness ==
  /\ pc = "returned"
  /\ Has(trace, "error allocating metadata")
  /\ extraDataSize.value = 1
  /\ backendCalls = 1

\* C3 (as the specification states it): at verbosity 0 nothing is written to stderr, except on
\* the fatal mismatch path.
C3_SilentAtVerbosityZero ==
  (verbosity = 0 /\ ~MismatchDetected) => stderr = <<>>

\* C4 (as the specification states it): the validation of a non-generic, non-enum value type
\* with extra size 0 ends with the success trace, and without a dump.
C4_NonGenericReportsSuccess ==
  (/\ pc = "returned"
   /\ description.isValue
   /\ ~description.isGeneric
   /\ ~isEnumVWT(original.vwt)
   /\ extraDataSize.value = 0) =>
     /\ Has(trace, SuccessMsg)
     /\ ~Has(trace, "dumpMetadata(original)")
     /\ ~Has(trace, "dumpMetadata(newMetadata)")

\* C4 (amended): the validation of a non-generic type returns at once, with
\* no step run, nothing reported and no dump; a run that returns after the
\* Compare step (a generic value type whose two builds agree) ends with the
\* success trace naming the type, written from verbosity 2 on, and without a
\* dump.
C4_SuccessOnlyForGeneric ==
  /\ (pc = "returned" /\ ~description.isGeneric) =>
       /\ trace = <<>>
       /\ stderr = <<>>
       /\ ~terminated
  /\ (pc = "returned" /\ Has(trace, "memcmp")) =>
       /\ description.isValue /\ description.isGeneric
       /\ IsSuffix(<<"memcmp", "swift_getTypeName", SuccessMsg>>, trace)
       /\ ~Has(trace, "dumpMetadata(original)")
       /\ ~Has(trace, "dumpMetadata(newMetadata)")
       /\ ~HasLine(stderr, "dumpMetadata")
       /\ verbosity >= 2 =>
            stderr[Len(stderr)] = Line("validationLog", SuccessMsg, original.name)
       /\ verbosity < 2 => stderr = <<>>

\* C4 witness: a non-generic, non-enum value type has been handed in and
\* the harness has returned.
C4_Witness ==
  /\ pc = "returned"
  /\ description.isValue
  /\ ~description.isGeneric
  /\ ~isEnumVWT(original.vwt)
  /\ extraDataSize.value = 0

(***************************************************************************)
(* Properties of WritableData and Buffer, checked under SpecPtr.           *)
(***************************************************************************)
InsideRegion(a) == data.ptr <= a /\ a < data.ptr + data.size

\* C5: the write to a field address outside [base, base + size) is flagged
\* by checkPtr, whatever the address (base + size itself, and the addresses
\* below base, where the subtraction wraps); the write to a field address
\* inside passes, and the field then holds the target.
C5_CheckPtrFlagsExactlyOutside ==
  nWrites > 0 =>
    /\ lastWrite.passed <=> InsideRegion(lastWrite.to)
    /\ flagged <=> ~InsideRegion(lastWrite.to)
    /\ \A a \in Addresses : checkPtr(a) <=> InsideRegion(a)
    /\ (lastWrite.passed /\ FieldBytes(lastWrite.field.kind) = PtrBytes) =>
         loadBytes(mem, lastWrite.to, PtrBytes) = lastWrite.target

\* C5 witness: a write at base + size, one past the end of a region that is
\* not empty, was flagged.
C5_Witness ==
  /\ nWrites > 0
  /\ flagged
  /\ data.size > 0
  /\ lastWrite.to = data.ptr + data.size

\* The targets a field of each encoding can hold: any address for an
\* absolute field; for a relative field, null when the field is nullable,
\* or an address whose distance from the field fits the Offset, is not 0
\* when the field is nullable (0 is its null), and is even when the field is
\* indirectable (the low bit is its tag).
Distance(to, target) == target - to

InRange(f, to, target) ==
  \/ FieldBytes(f.kind) = PtrBytes
  \/ /\ FieldBytes(f.kind) = OffBytes
     /\ \/ target = 0 /\ f.Nullable
        \/ /\ target # 0
           /\ Distance(to, target) >= -(OffVals \div 2)
           /\ Distance(to, target) < OffVals \div 2
           /\ f.Nullable => Distance(to, target) # 0
           /\ f.kind = "RelativeIndirectablePointer" => Distance(to, target) % 2 = 0

C10_WritesStayInsideRegion ==
  \A a \in written : InsideRegion(a)

(***************************************************************************)
(* Properties of the symbol lookup, checked under SpecSym.                 *)
(***************************************************************************)
SymbolNotFound == "dlsym could not find symbol"
UnsupportedPlatform == "getSymbolPointer is not implemented on this platform"

\* C7: getSymbolPointer answers with an error and no Buffer when dlsym
\* finds nothing (the not-found error) and when the build has no symbol
\* lookup (the unsupported-platform error); it answers with a Buffer only
\* when dlsym gave an address that is not null, and the Buffer is at that
\* address.
C7_GetSymbolPointerErrors ==
  pc = "getSymbolPointer" =>
    LET r == symResult.result
        found == symtab[symResult.name]
    IN /\ ~USE_DLADDR => (r.isError /\ r.error = UnsupportedPlatform)
       /\ (USE_DLADDR /\ found = 0) => (r.isError /\ r.error = SymbolNotFound)
       /\ r.isError => r.value = 0
       /\ ~r.isError => (USE_DLADDR /\ found # 0 /\ r.value = found)

\* C7 witness: a lookup of an absent name, in a build that has dlsym, ended
\* with the not-found error.
C7_Witness ==
  /\ pc = "getSymbolPointer"
  /\ USE_DLADDR
  /\ symtab[symResult.name] = 0
  /\ symResult.result.isError

IsString(s) == \A i \in DOMAIN s : s[i] \in {"/", "a", "l", "s"} \cup {Unknown[j] : j \in DOMAIN Unknown}

UnknownInfo == [symbolName |-> Unknown, libraryName |-> Unknown, pointerOffset |-> 0]

\* C8: getSymbolInfo always answers with a SymbolInfo; it is ("<unknown>",
\* "<unknown>", 0) when the build has no dladdr or dladdr fails; when dladdr
\* succeeds without a symbol name, or without a file name, that field is
\* "<unknown>".
C8_GetSymbolInfoTotal ==
  pc = "getSymbolInfo" =>
    LET i == infoResult.info
        dl == infoResult.dl
    IN /\ IsString(i.symbolName)
       /\ IsString(i.libraryName)
       /\ i.pointerOffset \in Addresses
       /\ (~USE_DLADDR \/ dl.result = 0) => i = UnknownInfo
       /\ (USE_DLADDR /\ dl.result # 0 /\ dl.dli_sname.isNull) => i.symbolName = Unknown
       /\ (USE_DLADDR /\ dl.result # 0 /\ ~dl.dli_sname.isNull) => i.symbolName = dl.dli_sname.chars
       /\ (USE_DLADDR /\ dl.result # 0 /\ dl.dli_fname.isNull) => i.libraryName = Unknown

\* C8 witness: dladdr succeeded with a file name and no symbol name.
C8_Witness ==
  /\ pc = "getSymbolInfo"
  /\ USE_DLADDR
  /\ infoResult.dl.result # 0
  /\ infoResult.dl.dli_sname.isNull
  /\ ~infoResult.dl.dli_fname.isNull
  /\ infoResult.info.symbolName = Unknown

(***************************************************************************)
(* Properties of equalVWTs, checked under SpecVWT.                         *)
(***************************************************************************)
RequiredEntriesEqual(a, b) ==
  /\ \A w \in RequiredWitnesses : a.req[w] = b.req[w]
  /\ a.flags.Data = b.flags.Data

EnumEntriesEqual(a, b) == \A w \in EnumWitnesses : a.enum[w] = b.enum[w]

\* C9: equalVWTs is true exactly when the required entries agree (the flags
\* by their opaque value) and either neither table is an enum table or both
\* are and their enum entries agree; it is false when only one is an enum
\* table; the enum entries play no part for tables that are not enum tables.
C9_EqualVWTs ==
  vwtResult.done =>
    /\ vwtResult.value <=>
         /\ RequiredEntriesEqual(vwtA, vwtB)
         /\ \/ ~isEnumVWT(vwtA) /\ ~isEnumVWT(vwtB)
            \/ isEnumVWT(vwtA) /\ isEnumVWT(vwtB) /\ EnumEntriesEqual(vwtA, vwtB)
    /\ (isEnumVWT(vwtA) # isEnumVWT(vwtB)) => ~vwtResult.value
    /\ (RequiredEntriesEqual(vwtA, vwtB) /\ ~isEnumVWT(vwtA) /\ ~isEnumVWT(vwtB)) =>
         vwtResult.value

\* C9 witness: two enum tables whose required entries agree and whose enum
\* entries differ were compared, and found different.
C9_Witness ==
  /\ vwtResult.done
  /\ RequiredEntriesEqual(vwtA, vwtB)
  /\ isEnumVWT(vwtA)
  /\ isEnumVWT(vwtB)
  /\ ~EnumEntriesEqual(vwtA, vwtB)
  /\ ~vwtResult.value

====
